---- MODULE Spec2Model ----
(***************************************************************************)
(* A model of the superhero PDF program:                                   *)
(*   - the fetch loop of main() with the SuperHeroClient request path,     *)
(*   - PDF.__init__ / PDF._prepare_data (the grouper),                     *)
(*   - PDF.create_pdf (the layout engine), step by step.                   *)
(* Lengths are in points, as reportlab counts them: inch = 72.             *)
(***************************************************************************)
EXTENDS Integers, Sequences, FiniteSets

VARIABLES
    \* main(): the fetch loop
    hero_id,        \* the identifier cursor
    super_heroes,   \* the records collected so far
    fpc,            \* "loop" | "done" (the while ended) | "crashed" (uncaught exception)
    outcome,        \* what get_biography / get_super_hero did in the last iteration
    looked,         \* the ids handed to get_biography, in order
    \* PDF
    arg,            \* the super_heroes list handed to PDF(...)
    data,           \* self.data: the ordered mapping, a sequence of [key, heroes]
    bottom,         \* self._bottom
    page_items,     \* self._page_items
    right_info,     \* self._right_info
    right_image,    \* self._right_image
    image_bottom,   \* create_pdf's local image_bottom
    ops,            \* what the canvas of the current run was asked to draw, in order
    pc,             \* the position inside PDF(...).create_pdf()
    gi,             \* index of the current key in self.data
    hi,             \* index of the current hero in heroes
    pi,             \* index of the next info paragraph of the current hero
    run,            \* how many times create_pdf was called on this object
    first_ops       \* the operations of the first run, kept when a second starts

fetchVars == <<hero_id, super_heroes, fpc, outcome, looked>>
pdfVars == <<arg, data, bottom, page_items, right_info, right_image, image_bottom,
             ops, pc, gi, hi, pi, run, first_ops>>
vars == <<fetchVars, pdfVars>>

(***************************************************************************)
(* Bounds                                                                  *)
(***************************************************************************)
MaxId == 11          \* ids the data source answers for; the loop is cut there
MaxHeroes == 6       \* longest list handed to PDF(...) in the layout runs
MaxGroupInput == 4   \* longest list handed to the grouper alone

(***************************************************************************)
(* SuperHeroClient                                                         *)
(***************************************************************************)
RetryTotal == 5
Publishers == {"DC Comics", "Marvel Comics"}
TargetPublisher == "DC Comics"
TargetCount == 10

\* What the upstream does with one GET: `fails` answers with a status of the
\* force list (502, 503, 504) come first, then an answer with `status`; a 200 carries a body that
\* parses as JSON or does not.
FinalStatuses == {200, 404, 500}
FailCounts == {0, RetryTotal, RetryTotal + 1}
Answers == [fails : FailCounts, status : FinalStatuses, wellformed : BOOLEAN]

\* session.send through HTTPAdapter(max_retries=Retry(total=5, status_forcelist)):
\* the first attempt and RetryTotal retries; when every one of them meets a
\* status of the force list the adapter raises requests' RetryError, which is
\* not an HTTPError. Otherwise the final response comes back.
Send(ans) ==
    IF ans.fails > RetryTotal
    THEN [raised |-> "RetryError", status |-> 503]
    ELSE [raised |-> "", status |-> ans.status]

\* _make_request: the value returned ("json", "text" or "none") or the exception.
MakeRequest(ans) ==
    LET r == Send(ans) IN
    IF r.raised # "" THEN [kind |-> r.raised]
    ELSE IF r.status = 200
         THEN (IF ans.wellformed THEN [kind |-> "json"] ELSE [kind |-> "text"])
    ELSE IF r.status = 404 THEN [kind |-> "none"]
    ELSE IF r.status >= 400 THEN [kind |-> "HTTPError"]
    ELSE [kind |-> "none"]

GetBiography(ans) == MakeRequest(ans)
GetSuperHero(ans) == MakeRequest(ans)

\* SuperHero.from_api, as far as the loop and the PDF use its result.
\* occupation is the list of occupation tags, never empty.
FromApi(id, pub, occ) == [id |-> id, publisher |-> pub, occupation |-> occ]

(***************************************************************************)
(* main(): one action per loop iteration                                   *)
(***************************************************************************)
\* while (len(super_heroes) < 10)
LoopGuard == Len(super_heroes) < TargetCount

\* except HTTPError as err
Caught(exc) == exc = "HTTPError"

\* (variant: the publisher is not compared with the target)
PublisherMatchesAny(pub) == pub \in Publishers

\* if (biography['publisher'] == 'DC Comics')
PublisherMatches(pub) == pub = TargetPublisher

Raised(kind) == kind \in {"HTTPError", "RetryError"}

\* The effect of one iteration on <<super_heroes, fpc>>, given what the two
\* lookups did. "skipped" stands for a lookup that was not made.
\* A str body makes biography['publisher'] (and from_api) raise TypeError.
IterationResult(id, pub, bio, hero) ==
    IF Raised(bio)
    THEN [heroes |-> super_heroes, fpc |-> IF Caught(bio) THEN "loop" ELSE "crashed"]
    ELSE IF bio = "none" THEN [heroes |-> super_heroes, fpc |-> "loop"]
    ELSE IF bio = "text" THEN [heroes |-> super_heroes, fpc |-> "crashed"]
    ELSE IF ~PublisherMatches(pub) THEN [heroes |-> super_heroes, fpc |-> "loop"]
    ELSE IF Raised(hero)
    THEN [heroes |-> super_heroes, fpc |-> IF Caught(hero) THEN "loop" ELSE "crashed"]
    ELSE IF hero = "none" THEN [heroes |-> super_heroes, fpc |-> "loop"]
    ELSE IF hero = "text" THEN [heroes |-> super_heroes, fpc |-> "crashed"]
    ELSE [heroes |-> Append(super_heroes, FromApi(id, pub, <<"-">>)), fpc |-> "loop"]

Iteration ==
    /\ fpc = "loop"
    /\ LoopGuard
    /\ hero_id < MaxId
    /\ \E pub \in Publishers, b \in Answers :
         LET id == hero_id + 1
             bio == GetBiography(b).kind
             asked == bio = "json" /\ PublisherMatches(pub)
         IN \E h \in IF asked THEN Answers ELSE {b} :
              LET hero == IF asked THEN GetSuperHero(h).kind ELSE "skipped"
                  res == IterationResult(id, pub, bio, hero)
              IN /\ hero_id' = id
                 /\ looked' = Append(looked, id)
                 /\ outcome' = [bio |-> bio, hero |-> hero, publisher |-> pub]
                 /\ super_heroes' = res.heroes
                 /\ fpc' = res.fpc
    /\ UNCHANGED pdfVars

\* The while condition is false: main goes on to PDF(...).create_pdf().
LoopExit ==
    /\ fpc = "loop"
    /\ ~LoopGuard
    /\ fpc' = "done"
    /\ UNCHANGED <<hero_id, super_heroes, outcome, looked>>
    /\ UNCHANGED pdfVars

FetchInit ==
    /\ hero_id = 0
    /\ super_heroes = <<>>
    /\ fpc = "loop"
    /\ outcome = [bio |-> "skipped", hero |-> "skipped", publisher |-> ""]
    /\ looked = <<>>

PdfIdle ==
    /\ arg = <<>>
    /\ data = <<>>
    /\ bottom = 0
    /\ page_items = 0
    /\ right_info = 0
    /\ right_image = 0
    /\ image_bottom = 0
    /\ ops = <<>>
    /\ pc = "idle"
    /\ gi = 0
    /\ hi = 0
    /\ pi = 0
    /\ run = 0
    /\ first_ops = <<>>

InitFetch == FetchInit /\ PdfIdle
NextFetch == Iteration \/ LoopExit
SpecFetch == InitFetch /\ [][NextFetch]_vars

(***************************************************************************)
(* PDF: constants                                                          *)
(***************************************************************************)
inch == 72
PageTop == 11 * inch              \* self._bottom = 11 * inch
RightInfo == 2 * inch + inch \div 2
RightImage == inch
HeadingDrop == inch \div 2        \* _draw_heading: self._bottom -= inch/2
Gap == inch \div 4                \* self._bottom -= inch/4
ImageSlot == 640 \div 5           \* image_bottom = self._bottom - 640/5
ImageLift == 20
LineGap == 12                     \* _draw_paragraph: ... - h - 12
MaxPageItems == 5                 \* if self._page_items == 5
Unknown == "-"
Separator == "________"           \* '_'*80
Labels == <<"Full name", "Alter Egos", "Aliases", "Place of Birth">>
\* Heights Paragraph.wrap may return: one or two lines of the Normal style.
WrapHeights == {12, 24}

(***************************************************************************)
(* PDF.__init__ and _prepare_data                                          *)
(***************************************************************************)
HasKey(d, group) == \E i \in 1..Len(d) : d[i].key = group

\* (variant: an occupation seen before gets a new list instead of an append)
AddHeroOverwrite(d, super_hero) ==
    LET group == super_hero.occupation[1] IN
    IF ~HasKey(d, group)
    THEN Append(d, [key |-> group, heroes |-> <<super_hero>>])
    ELSE [i \in 1..Len(d) |->
            IF d[i].key = group
            THEN [d[i] EXCEPT !.heroes = <<super_hero>>]
            ELSE d[i]]

\* One turn of the loop of _prepare_data on the mapping d.
AddHero(d, super_hero) ==
    LET group == super_hero.occupation[1] IN
    IF ~HasKey(d, group)
    THEN Append(d, [key |-> group, heroes |-> <<super_hero>>])
    ELSE [i \in 1..Len(d) |->
            IF d[i].key = group
            THEN [d[i] EXCEPT !.heroes = Append(@, super_hero)]
            ELSE d[i]]

RECURSIVE PrepareFrom(_, _)
PrepareFrom(d, rest) ==
    IF rest = <<>> THEN d ELSE PrepareFrom(AddHero(d, Head(rest)), Tail(rest))

\* self.data = {} ; self._prepare_data(super_heroes)
PrepareData(heroes) == PrepareFrom(<<>>, heroes)

\* PDF(file_name, title, super_heroes)
Construct ==
    /\ pc = "new"
    /\ data' = PrepareData(arg)
    /\ bottom' = PageTop
    /\ page_items' = 0
    /\ right_info' = RightInfo
    /\ right_image' = RightImage
    /\ pc' = "start"
    /\ UNCHANGED <<arg, image_bottom, ops, gi, hi, pi, run, first_ops>>
    /\ UNCHANGED fetchVars

(***************************************************************************)
(* PDF.create_pdf, one action per step                                     *)
(***************************************************************************)
Op(kind, text, who, x, y, size) ==
    [op |-> kind, text |-> text, who |-> who, x |-> x, y |-> y, size |-> size]

\* _draw_heading(msg, font_size): the string drawn; the cursor drops by inch/2.
Heading(msg, font_size) == Op("drawString", msg, 0, inch, bottom, font_size)

\* (variant: the placeholder key is not excluded)
SharedAnyKey(key) ==
    \E i \in 1..Len(data) :
        /\ data[i].key = key
        /\ Len(data[i].heroes) > 1

\* _shared_occupation(key)
SharedOccupation(key) ==
    \E i \in 1..Len(data) :
        /\ data[i].key = key
        /\ Len(data[i].heroes) > 1
        /\ key # Unknown

CurKey == data[gi].key
CurHeroes == data[gi].heroes
CurHero == CurHeroes[hi]

\* (variant: the separator is not kept for the last hero)
IsLastAlways(hero, heroes) == hero \in {heroes[i] : i \in 1..Len(heroes)}

\* hero == heroes[-1]
IsLast(hero, heroes) == hero = heroes[Len(heroes)]

\* (variant: at least 5)
PageFullAtLeast == page_items >= MaxPageItems

\* if self._page_items == 5
PageFull == page_items = MaxPageItems

\* (variant: the cursor is left where the last paragraph ended)
SnappedNot == bottom

\* self._bottom = image_bottom
Snapped == image_bottom

\* self.canvas = Canvas(...); self._draw_heading(self.title, 18)
StartDocument ==
    /\ pc = "start"
    /\ run' = run + 1
    /\ ops' = <<Heading("title", 18)>>
    /\ bottom' = bottom - HeadingDrop
    /\ gi' = 1
    /\ pc' = "group"
    /\ UNCHANGED <<arg, data, page_items, right_info, right_image, image_bottom,
                   hi, pi, first_ops>>
    /\ UNCHANGED fetchVars

\* for key in self.data: the margins are set again, a shared occupation gets
\* its heading and counts as a page item.
GroupHead ==
    /\ pc = "group"
    /\ gi <= Len(data)
    /\ IF SharedOccupation(CurKey)
       THEN /\ right_info' = RightInfo + inch \div 2
            /\ right_image' = RightImage + inch \div 2
            /\ ops' = Append(ops, Heading(CurKey, 16))
            /\ bottom' = bottom - HeadingDrop
            /\ page_items' = page_items + 1
       ELSE /\ right_info' = RightInfo
            /\ right_image' = RightImage
            /\ UNCHANGED <<ops, bottom, page_items>>
    /\ hi' = 1
    /\ pc' = "hero"
    /\ UNCHANGED <<arg, data, image_bottom, gi, pi, run, first_ops>>
    /\ UNCHANGED fetchVars

\* for hero in heroes: the page item is counted and the image drawn.
PlaceImage ==
    /\ pc = "hero"
    /\ page_items' = page_items + 1
    /\ image_bottom' = bottom - ImageSlot
    /\ ops' = Append(ops, Op("drawImage", "picture", CurHero.id, right_image,
                             image_bottom' + ImageLift, 0))
    /\ pi' = 1
    /\ pc' = "para"
    /\ UNCHANGED <<arg, data, bottom, right_info, right_image, gi, hi, run, first_ops>>
    /\ UNCHANGED fetchVars

\* _draw_info_paragraph(title, msg) -> _draw_paragraph: the backend wraps the
\* text to a height h of its own; the cursor drops by h and the line gap.
\* (The paragraph is drawn at y - h, a position of the backend's choosing; the
\* operation records the label, the hero and the margin.)
DrawInfoParagraph ==
    /\ pc = "para"
    /\ \E h \in WrapHeights : bottom' = bottom - h - LineGap
    /\ ops' = Append(ops, Op("paragraph", Labels[pi], CurHero.id, right_info, 0, 0))
    /\ IF pi < Len(Labels)
       THEN pi' = pi + 1 /\ pc' = "para"
       ELSE pi' = pi /\ pc' = "snap"
    /\ UNCHANGED <<arg, data, page_items, right_info, right_image, image_bottom,
                   gi, hi, run, first_ops>>
    /\ UNCHANGED fetchVars

\* self._bottom = image_bottom; the separator after the last hero of a shared
\* occupation; the quarter-inch gap.
SnapAndGap ==
    /\ pc = "snap"
    /\ IF SharedOccupation(CurKey) /\ IsLast(CurHero, CurHeroes)
       THEN /\ ops' = Append(ops, Op("drawString", Separator, 0, inch, image_bottom, 11))
            /\ bottom' = Snapped - Gap - Gap
       ELSE /\ ops' = ops
            /\ bottom' = Snapped - Gap
    /\ pc' = "check"
    /\ UNCHANGED <<arg, data, page_items, right_info, right_image, image_bottom,
                   gi, hi, pi, run, first_ops>>
    /\ UNCHANGED fetchVars

\* if self._page_items == 5: showPage, and the counter and the cursor start
\* again; then the next hero, or the next key.
PageCheck ==
    /\ pc = "check"
    /\ IF PageFull
       THEN /\ ops' = Append(ops, Op("showPage", "", 0, 0, 0, 0))
            /\ page_items' = 0
            /\ bottom' = PageTop
       ELSE UNCHANGED <<ops, page_items, bottom>>
    /\ IF hi < Len(CurHeroes)
       THEN hi' = hi + 1 /\ gi' = gi /\ pc' = "hero"
       ELSE hi' = hi /\ gi' = gi + 1 /\ pc' = "group"
    /\ UNCHANGED <<arg, data, right_info, right_image, image_bottom, pi, run, first_ops>>
    /\ UNCHANGED fetchVars

\* self.canvas.save()
Save ==
    /\ pc = "group"
    /\ gi > Len(data)
    /\ ops' = Append(ops, Op("save", "", 0, 0, 0, 0))
    /\ pc' = "done"
    /\ UNCHANGED <<arg, data, bottom, page_items, right_info, right_image,
                   image_bottom, gi, hi, pi, run, first_ops>>
    /\ UNCHANGED fetchVars

\* create_pdf() called once more on the same object.
CallAgain ==
    /\ pc = "done"
    /\ run = 1
    /\ first_ops' = ops
    /\ pc' = "start"
    /\ UNCHANGED <<arg, data, bottom, page_items, right_info, right_image,
                   image_bottom, ops, gi, hi, pi, run>>
    /\ UNCHANGED fetchVars

(***************************************************************************)
(* The lists handed to PDF(...)                                            *)
(***************************************************************************)
OccNames == <<"o1", "o2", "o3", "o4", "o5", "o6", "o7", "o8">>
Tag(k) == IF k = 0 THEN Unknown ELSE OccNames[k]

\* Hero number i of a list, with first occupation tag number k.
HeroOf(i, k) == FromApi(i, TargetPublisher, <<Tag(k)>>)
HeroList(f, n) == [i \in 1..n |-> HeroOf(i, f[i])]

\* Occupation names are interchangeable (only "-" is told apart), so the layout
\* runs take one list of each shape: name k+1 appears only after name k.
InOrder(f, n) == \A i \in 1..n : f[i] > 1 => \E j \in 1..(i - 1) : f[j] = f[i] - 1

LayoutArgs ==
    UNION {{HeroList(f, n) : f \in {g \in [1..n -> 0..n] : InOrder(g, n)}} : n \in 0..MaxHeroes}

GroupTags == 0..2
GroupArgs ==
    UNION {{HeroList(f, n) : f \in [1..n -> GroupTags]} : n \in 0..MaxGroupInput}

PdfNew(args) ==
    /\ arg \in args
    /\ data = <<>>
    /\ bottom = 0
    /\ page_items = 0
    /\ right_info = 0
    /\ right_image = 0
    /\ image_bottom = 0
    /\ ops = <<>>
    /\ pc = "new"
    /\ gi = 0
    /\ hi = 0
    /\ pi = 0
    /\ run = 0
    /\ first_ops = <<>>

\* The grouper alone.
InitGroup == FetchInit /\ PdfNew(GroupArgs)
NextGroup == Construct
SpecGroup == InitGroup /\ [][NextGroup]_vars

\* One run of create_pdf on a fresh PDF object.
InitLayout == FetchInit /\ PdfNew(LayoutArgs)
NextLayout ==
    \/ Construct
    \/ StartDocument
    \/ GroupHead
    \/ PlaceImage
    \/ DrawInfoParagraph
    \/ SnapAndGap
    \/ PageCheck
    \/ Save
SpecLayout == InitLayout /\ [][NextLayout]_vars

\* The same, with create_pdf called a second time on the object.
NextRerun == NextLayout \/ CallAgain
SpecRerun == InitLayout /\ [][NextRerun]_vars

(***************************************************************************)
(* Properties of the fetch loop (SpecFetch)                                *)
(***************************************************************************)

\* C4: in every state of the fetch loop at most TargetCount (10) records are
\* collected, every collected record has the target publisher and comes from
\* an id that was looked up, and the ids looked up are 1, 2, 3, ... in this
\* order: the cursor starts at 1, grows by one per iteration and no id is
\* looked up twice.
FetchInvariant ==
    /\ Len(super_heroes) <= TargetCount
    /\ \A i \in 1..Len(super_heroes) :
         /\ super_heroes[i].publisher = TargetPublisher
         /\ super_heroes[i].id \in 1..hero_id
         /\ \A j \in 1..(i - 1) : super_heroes[j].id < super_heroes[i].id
    /\ Len(looked) = hero_id
    /\ \A i \in 1..Len(looked) : looked[i] = i

\* C4 witness: ten records are collected after more than ten lookups.
FetchInvariantWitness ==
    /\ Len(super_heroes) = TargetCount
    /\ hero_id > TargetCount
    /\ fpc = "done"

\* C5: the loop stops only by collecting TargetCount records, and then holds
\* exactly that many: while fewer matching ids with a full record have been
\* met, the loop is still running.
StopsOnlyWithTargetCount ==
    fpc # "loop" => Len(super_heroes) = TargetCount

PermanentFailure(o) == Raised(o.bio) \/ Raised(o.hero)
NotFound(o) == o.bio = "none" \/ o.hero = "none"

\* C6: an iteration whose biography or full-record lookup ends in a permanent
\* HTTP failure (a 4xx/5xx other than 404, or a status of the force list after
\* the retries are used up) or in a 404 leaves the collected records as they
\* were and the loop running.
FailureIsSkip ==
    [][(hero_id' # hero_id /\ (PermanentFailure(outcome') \/ NotFound(outcome')))
         => (super_heroes' = super_heroes /\ fpc' = "loop")]_vars

(***************************************************************************)
(* Properties of the grouper (SpecGroup)                                   *)
(***************************************************************************)
KeyOf(h) == h.occupation[1]
FirstIndex(key) ==
    CHOOSE i \in 1..Len(arg) :
        KeyOf(arg[i]) = key /\ \A j \in 1..(i - 1) : KeyOf(arg[j]) # key
WithKey(key) == SelectSeq(arg, LAMBDA h : KeyOf(h) = key)
Places(h) ==
    {<<g, k>> \in (1..Len(data)) \X (1..Len(arg)) :
        k <= Len(data[g].heroes) /\ data[g].heroes[k] = h}

\* C3: after _prepare_data every record of the list is in the mapping exactly
\* once, in the group keyed by its first occupation tag; the keys are in the
\* order of their first occurrence in the list; the members of a group are in
\* the order of the list.
GroupingPreserves ==
    pc = "start" =>
        /\ \A i \in 1..Len(arg) :
             /\ Cardinality(Places(arg[i])) = 1
             /\ \A p \in Places(arg[i]) : data[p[1]].key = KeyOf(arg[i])
        /\ \A g \in 1..Len(data) :
             /\ data[g].heroes = WithKey(data[g].key)
             /\ data[g].heroes # <<>>
             /\ \A g2 \in 1..(g - 1) :
                  /\ data[g2].key # data[g].key
                  /\ FirstIndex(data[g2].key) < FirstIndex(data[g].key)

\* C3 witness: two groups met in turn, the first one with the 1st and the 3rd
\* record of the list.
GroupingWitness ==
    /\ pc = "start"
    /\ Len(arg) = 3
    /\ Len(data) = 2
    /\ Len(data[1].heroes) = 2
    /\ data[1].heroes[2].id = 3
    /\ data[1].key # Unknown

(***************************************************************************)
(* Properties of the layout engine (SpecLayout, SpecRerun)                 *)
(***************************************************************************)
\* A shared-occupation group, in the words of the specification.
Shared(g) == Len(data[g].heroes) > 1 /\ data[g].key # Unknown
Plain(g) == Len(data[g].heroes) = 1 \/ data[g].key = Unknown

IsBreak(o) == o.op = "showPage"
Breaks == SelectSeq(ops, IsBreak)
Shape(o) == [op |-> o.op, text |-> o.text, who |-> o.who, x |-> o.x, size |-> o.size]
NotBreak(o) == o.op # "showPage"
Drawn == LET s == SelectSeq(ops, NotBreak) IN [i \in 1..Len(s) |-> Shape(s[i])]

RECURSIVE SumLen(_)
SumLen(g) == IF g = 0 THEN 0 ELSE SumLen(g - 1) + Len(data[g].heroes)
NHeroes == SumLen(Len(data))
NShared == Cardinality({g \in 1..Len(data) : Shared(g)})

\* The operations of group g inside Drawn: they follow the title and the
\* operations of the groups before.
SegLen(g) == 5 * Len(data[g].heroes) + (IF Shared(g) THEN 2 ELSE 0)
RECURSIVE SegStart(_)
SegStart(g) == IF g = 1 THEN 2 ELSE SegStart(g - 1) + SegLen(g - 1)
Segment(g) ==
    IF SegStart(g) + SegLen(g) - 1 <= Len(Drawn)
    THEN SubSeq(Drawn, SegStart(g), SegStart(g) + SegLen(g) - 1)
    ELSE <<>>

Member(h, xinfo, ximage) ==
    <<[op |-> "drawImage", text |-> "picture", who |-> h.id, x |-> ximage, size |-> 0]>>
    \o [k \in 1..4 |->
          [op |-> "paragraph", text |-> Labels[k], who |-> h.id, x |-> xinfo, size |-> 0]]
RECURSIVE Members(_, _, _)
Members(hs, xinfo, ximage) ==
    IF hs = <<>> THEN <<>>
    ELSE Member(Head(hs), xinfo, ximage) \o Members(Tail(hs), xinfo, ximage)

\* C1: the page-item counter is within [0, 5] in every state of create_pdf.
PageItemsInRange == page_items \in 0..MaxPageItems

BreakStep ==
    /\ Len(ops') = Len(ops) + 1
    /\ IsBreak(ops'[Len(ops')])

FiveSingletons ==
    /\ Len(data) = 5
    /\ \A g \in 1..Len(data) : Len(data[g].heroes) = 1

RerunIdentical ==
    (run = 2 /\ pc = "done") => ops = first_ops

PlainGroupOps ==
    /\ (pc \in {"hero", "para", "snap", "check"} /\ Plain(gi)) =>
          (right_info = RightInfo /\ right_image = RightImage)
    /\ pc = "done" =>
          /\ \A g \in 1..Len(data) :
               Plain(g) =>
                  Segment(g) = Members(data[g].heroes, RightInfo, RightImage)
          /\ (\A g \in 1..Len(data) : Plain(g)) =>
                (page_items = NHeroes % 5 /\ Len(Breaks) = NHeroes \div 5)

\* C9 witness: three heroes share the key "-".
PlainGroupWitness ==
    /\ pc = "done"
    /\ Len(data) = 1
    /\ data[1].key = Unknown
    /\ Len(data[1].heroes) = 3
    /\ page_items = 3

LastOp == ops[Len(ops)]
Images == SelectSeq(ops, LAMBDA o : o.op = "drawImage")
\* The cursor when the last image was drawn: the image sits 20 above the
\* cursor less the image slot.
CursorBeforeHero == Images[Len(Images)].y - ImageLift + ImageSlot
SeparatorDrawn == LastOp.op = "drawString" /\ LastOp.text = Separator

\* C10: once a hero is placed the cursor is the cursor before the hero less
\* the image slot (128) and the gap (18), less one more gap when the separator
\* was drawn, whatever heights the four paragraphs had; after the check it is
\* the same, or the page top when the page was broken.
HeroAdvanceFixed ==
    /\ pc = "check" =>
          bottom = CursorBeforeHero - 128 - 18 - (IF SeparatorDrawn THEN 18 ELSE 0)
    /\ ((pc = "hero" /\ hi > 1) \/ (pc = "group" /\ gi > 1)) =>
          bottom = IF IsBreak(LastOp) THEN 11 * inch
                   ELSE CursorBeforeHero - 128 - 18 - (IF SeparatorDrawn THEN 18 ELSE 0)

\* C10 witness: the last hero of a shared group is placed, the separator drawn.
HeroAdvanceWitness ==
    /\ pc = "check"
    /\ SeparatorDrawn
    /\ hi = 3

====
